---- MODULE Spec2Model ----
(***************************************************************************)
(* Model of docs/conf.py, the Sphinx configuration module of Merlon.       *)
(*                                                                         *)
(* Sphinx loads conf.py by executing its module body, top to bottom, in a  *)
(* fresh namespace.  The module body is a straight line of statements: one *)
(* import, one call of merlon.version() and a series of assignments of     *)
(* literals.  A statement that raises ends the load and leaves the names   *)
(* bound so far.  Several independent loads (different builds, different   *)
(* environments) are modelled side by side.                                *)
(***************************************************************************)
EXTENDS Integers, Sequences, FiniteSets

(* ---- bounds ---------------------------------------------------------- *)

\* number of independent loads of conf.py that are observed
NumLoads == 2

\* number of distinct merlon releases an environment may have installed
MaxVersions == 3

Loads == 1..NumLoads

(* ---- Python values --------------------------------------------------- *)

Str(s)    == [kind |-> "str",    val |-> s]
Bool(b)   == [kind |-> "bool",   val |-> b]
Num(i)    == [kind |-> "int",    val |-> i]
List(xs)  == [kind |-> "list",   val |-> xs]
Dict(d)   == [kind |-> "dict",   val |-> d]
Module(m) == [kind |-> "module", val |-> m]
None      == [kind |-> "none",   val |-> "None"]
\* a name that is not bound in the namespace
Undefined == [kind |-> "undef",  val |-> "undef"]

(* ---- the literals conf.py assigns ------------------------------------ *)

project == Str("Merlon")

copyright == Str("\n2023, Alex Bates.\n\nThe author is not affiliated with Nintendo Co., Ltd. in any way.\n\nThe PAPER MARIO trademark owned by Nintendo Co., Ltd. is used in this modding tool under the fair use doctrine, solely\nfor the purpose of enabling users to modify the game in a transformative manner.\n\nMods packaged into a distributable with this application are encrypted using the original game ROM, and cannot be used\nwithout the original game ROM. No guarantees are made about the legal status of using this application to create mods\n")

author_empty == Str("")

author == Str("Alex Bates")

extensions_no_copybutton ==
    List(<< Str("sphinx.ext.autodoc"),
            Str("sphinx.ext.autosummary"),
            Str("sphinx.ext.coverage"),
            Str("myst_parser") >>)

extensions ==
    List(<< Str("sphinx.ext.autodoc"),
            Str("sphinx.ext.autosummary"),
            Str("sphinx.ext.coverage"),
            Str("myst_parser"),
            Str("sphinx_copybutton") >>)

templates_path == List(<< Str("_templates") >>)

exclude_patterns == List(<< Str("_build"), Str("Thumbs.db"), Str(".DS_Store") >>)

copybutton_prompt_text == Str("$ ")

copybutton_exclude == Str(".linenos, .gp, .go")

html_theme == Str("sphinx_rtd_theme")

html_static_path == List(<< Str("_static") >>)

html_logo_none == None

html_logo == Str("../assets/logo/logotype-docs.png")

html_favicon == Str("../assets/logo/merlon.ico")

html_theme_options ==
    Dict([ analytics_id                |-> Str("G-LCC88CM7GF"),
           analytics_anonymize_ip      |-> Bool(TRUE),
           logo_only                   |-> Bool(TRUE),
           display_version             |-> Bool(TRUE),
           prev_next_buttons_location  |-> Str("bottom"),
           style_external_links        |-> Bool(FALSE),
           vcs_pageview_mode           |-> Str(""),
           style_nav_header_background |-> Str("#534295"),
           collapse_navigation         |-> Bool(FALSE),
           sticky_navigation           |-> Bool(TRUE),
           navigation_depth            |-> Num(4),
           includehidden               |-> Bool(TRUE),
           titles_only                 |-> Bool(FALSE) ])

autosummary_generate == Bool(TRUE)

autoclass_content == Str("both")

(* ---- merlon.version() ------------------------------------------------ *)

\* release numbers of merlon an environment may have installed
VersionStrings == << "1.0.0", "1.1.0", "1.2.0", "1.3.0", "1.3.1", "2.0.0" >>

\* the values merlon.version() may return: the version string of the
\* package that is installed in the environment of the load
merlon_version == { Str(VersionStrings[i]) : i \in 1..MaxVersions }

(* ---- the module body ------------------------------------------------- *)

Import(ln, name)      == [line |-> ln, op |-> "import", target |-> name, value |-> Module(name)]
Call(ln, name)        == [line |-> ln, op |-> "call",   target |-> name, value |-> Undefined]
Assign(ln, name, lit) == [line |-> ln, op |-> "assign", target |-> name, value |-> lit]

\* plausible slip: version is first given a placeholder and then overwritten
\* by the call
Program_reassigns ==
    << Import(6, "merlon"),
       Assign(11, "project", project),
       Assign(12, "copyright", copyright),
       Assign(23, "author", author),
       Assign(24, "version", Str("0.0.0")),
       Call(25, "version"),
       Assign(31, "extensions", extensions),
       Assign(39, "templates_path", templates_path),
       Assign(40, "exclude_patterns", exclude_patterns),
       Assign(42, "copybutton_prompt_text", copybutton_prompt_text),
       Assign(43, "copybutton_exclude", copybutton_exclude),
       Assign(48, "html_theme", html_theme),
       Assign(49, "html_static_path", html_static_path),
       Assign(50, "html_logo", html_logo),
       Assign(51, "html_favicon", html_favicon),
       Assign(52, "html_theme_options", html_theme_options),
       Assign(72, "autosummary_generate", autosummary_generate),
       Assign(73, "autoclass_content", autoclass_content) >>

\* plausible slip: the version is computed before the author is set
Program_version_first ==
    << Import(6, "merlon"),
       Assign(11, "project", project),
       Assign(12, "copyright", copyright),
       Call(23, "version"),
       Assign(24, "author", author),
       Assign(31, "extensions", extensions),
       Assign(39, "templates_path", templates_path),
       Assign(40, "exclude_patterns", exclude_patterns),
       Assign(42, "copybutton_prompt_text", copybutton_prompt_text),
       Assign(43, "copybutton_exclude", copybutton_exclude),
       Assign(48, "html_theme", html_theme),
       Assign(49, "html_static_path", html_static_path),
       Assign(50, "html_logo", html_logo),
       Assign(51, "html_favicon", html_favicon),
       Assign(52, "html_theme_options", html_theme_options),
       Assign(72, "autosummary_generate", autosummary_generate),
       Assign(73, "autoclass_content", autoclass_content) >>

\* plausible slip: a second value is taken from the installed package
Program_two_calls ==
    << Import(6, "merlon"),
       Assign(11, "project", project),
       Assign(12, "copyright", copyright),
       Assign(23, "author", author),
       Call(24, "version"),
       Assign(31, "extensions", extensions),
       Assign(39, "templates_path", templates_path),
       Assign(40, "exclude_patterns", exclude_patterns),
       Assign(42, "copybutton_prompt_text", copybutton_prompt_text),
       Assign(43, "copybutton_exclude", copybutton_exclude),
       Assign(48, "html_theme", html_theme),
       Assign(49, "html_static_path", html_static_path),
       Assign(50, "html_logo", html_logo),
       Assign(51, "html_favicon", html_favicon),
       Assign(52, "html_theme_options", html_theme_options),
       Assign(72, "autosummary_generate", autosummary_generate),
       Call(73, "autoclass_content") >>

\* the statements of conf.py in file order, each with its source line
Program ==
    << Import(6, "merlon"),
       Assign(11, "project", project),
       Assign(12, "copyright", copyright),
       Assign(23, "author", author),
       Call(24, "version"),
       Assign(31, "extensions", extensions),
       Assign(39, "templates_path", templates_path),
       Assign(40, "exclude_patterns", exclude_patterns),
       Assign(42, "copybutton_prompt_text", copybutton_prompt_text),
       Assign(43, "copybutton_exclude", copybutton_exclude),
       Assign(48, "html_theme", html_theme),
       Assign(49, "html_static_path", html_static_path),
       Assign(50, "html_logo", html_logo),
       Assign(51, "html_favicon", html_favicon),
       Assign(52, "html_theme_options", html_theme_options),
       Assign(72, "autosummary_generate", autosummary_generate),
       Assign(73, "autoclass_content", autoclass_content) >>

\* every name the module body binds
Names == { Program[i].target : i \in 1..Len(Program) }

(* ---- state ----------------------------------------------------------- *)

VARIABLES
    pc,        \* pc[l]: index in Program of the next statement of load l
    status,    \* status[l]: "loading", "done" (ran to the end) or "error"
    ns,        \* ns[l][n]: value bound to name n in the namespace of load l
    executed   \* executed[l]: the statements load l has completed, in order

vars == << pc, status, ns, executed >>

Init ==
    /\ pc = [l \in Loads |-> 1]
    /\ status = [l \in Loads |-> "loading"]
    /\ ns = [l \in Loads |-> [n \in Names |-> Undefined]]
    /\ executed = [l \in Loads |-> << >>]

\* the statement load l is about to run
Current(l) == Program[pc[l]]

\* statement Current(l) completes and binds its target to v
Bind(l, v) ==
    /\ ns' = [ns EXCEPT ![l][Current(l).target] = v]
    /\ executed' = [executed EXCEPT ![l] = Append(@, [line |-> Current(l).line, target |-> Current(l).target])]
    /\ pc' = [pc EXCEPT ![l] = @ + 1]
    /\ status' = [status EXCEPT ![l] = IF pc[l] = Len(Program) THEN "done" ELSE "loading"]

\* statement Current(l) raises: the load stops where it is
Raise(l) ==
    /\ status' = [status EXCEPT ![l] = "error"]
    /\ UNCHANGED << pc, ns, executed >>

\* import merlon, the package is importable
ImportMerlon(l) ==
    /\ status[l] = "loading"
    /\ Current(l).op = "import"
    /\ Bind(l, Current(l).value)

\* import merlon, the package is not importable (ImportError)
ImportMerlonFails(l) ==
    /\ status[l] = "loading"
    /\ Current(l).op = "import"
    /\ Raise(l)

\* version = merlon.version(), the call returns
CallVersion(l) ==
    /\ status[l] = "loading"
    /\ Current(l).op = "call"
    /\ \E v \in merlon_version : Bind(l, v)

\* version = merlon.version(), the call raises
CallVersionFails(l) ==
    /\ status[l] = "loading"
    /\ Current(l).op = "call"
    /\ Raise(l)

\* plausible slip: the right-hand side is an expression that may raise
AssignLiteral_may_raise(l) ==
    /\ status[l] = "loading"
    /\ Current(l).op = "assign"
    /\ \/ Bind(l, Current(l).value)
       \/ Raise(l)

\* name = <literal>
AssignLiteral(l) ==
    /\ status[l] = "loading"
    /\ Current(l).op = "assign"
    /\ Bind(l, Current(l).value)

Next ==
    \E l \in Loads :
        \/ ImportMerlon(l)
        \/ ImportMerlonFails(l)
        \/ CallVersion(l)
        \/ CallVersionFails(l)
        \/ AssignLiteral(l)

Spec == Init /\ [][Next]_vars

(* ---- vocabulary of the properties ------------------------------------ *)

\* the top-level names the documentation generator recognises
ConfigNames ==
    { "project", "copyright", "author", "version", "extensions",
      "templates_path", "exclude_patterns", "html_theme", "html_static_path",
      "html_logo", "html_favicon", "html_theme_options",
      "autosummary_generate", "autoclass_content" }

Defined(l, n) == ns[l][n].kind # "undef"

DefinedNames(l) == { n \in Names : Defined(l, n) }

IsStr(v) == v.kind = "str"

IsStrList(v) ==
    /\ v.kind = "list"
    /\ \A i \in 1..Len(v.val) : IsStr(v.val[i])

IsDict(v) == v.kind = "dict"

IsBool(v) == v.kind = "bool"

NonEmptyStr(v) == IsStr(v) /\ v.val # ""

NonEmptyStrs(v) ==
    /\ v.kind = "list"
    /\ \A i \in 1..Len(v.val) : NonEmptyStr(v.val[i])

SameValue(a, b) == a.kind = b.kind /\ a.val = b.val

\* the list bound to extensions in load l names extension e
ExtensionListed(l, e) ==
    /\ ns[l]["extensions"].kind = "list"
    /\ \E i \in 1..Len(ns[l]["extensions"].val) : SameValue(ns[l]["extensions"].val[i], Str(e))

\* the load stopped with an exception in the statement at source line ln
FailedAt(l, ln) == status[l] = "error" /\ Current(l).line = ln

\* the load stopped with an exception in a statement of kind op
FailedIn(l, op) == status[l] = "error" /\ Current(l).op = op

\* the targets of the first k statements of the module body
Prefix(k) == { Program[i].target : i \in 1..k }

(* ---- C1 --------------------------------------------------------------- *)

\* C1 as stated: after a completed load every recognised name is defined and
\* its value is a string, a sequence of strings or a mapping.
C1_AsStated ==
    \A l \in Loads : status[l] = "done" =>
        \A n \in ConfigNames :
            /\ Defined(l, n)
            /\ IsStr(ns[l][n]) \/ IsStrList(ns[l][n]) \/ IsDict(ns[l][n])

\* C1 amended: after a completed load every recognised name is defined and
\* its value is a string, a sequence of strings or a mapping, except
\* autosummary_generate, whose value is the boolean True.
C1_Shapes ==
    \A l \in Loads : status[l] = "done" =>
        \A n \in ConfigNames :
            /\ Defined(l, n)
            /\ IF n = "autosummary_generate"
               THEN SameValue(ns[l][n], Bool(TRUE))
               ELSE IsStr(ns[l][n]) \/ IsStrList(ns[l][n]) \/ IsDict(ns[l][n])

C1_Witness ==
    \E l \in Loads :
        /\ status[l] = "done"
        /\ IsBool(ns[l]["autosummary_generate"])
        /\ IsDict(ns[l]["html_theme_options"])
        /\ IsStrList(ns[l]["exclude_patterns"])
        /\ IsStr(ns[l]["html_logo"])

(* ---- C2 --------------------------------------------------------------- *)

\* C2 as stated: no load ever stops in an error state.
C2_AsStated == \A l \in Loads : status[l] # "error"

\* C2 amended: a load can stop in an error state only in the statement
\* "import merlon" (line 6) or in the call merlon.version() (line 24); no
\* assignment of a literal fails, so a load that is past line 24 is never in
\* an error state and a load that is still running always has a statement to
\* run.
C2_FailsOnlyAtMerlon ==
    \A l \in Loads :
        /\ status[l] = "error" =>
              \/ Current(l).line = 6 /\ Current(l).op = "import"
              \/ Current(l).line = 24 /\ Current(l).op = "call"
        /\ status[l] = "loading" => pc[l] \in 1..Len(Program)
        /\ status[l] = "done" <=> pc[l] = Len(Program) + 1

C2_Witness ==
    \E l1, l2 \in Loads :
        /\ FailedAt(l1, 6)
        /\ FailedAt(l2, 24)

(* ---- C3 --------------------------------------------------------------- *)

\* C3 as stated: in any two completed loads every name, version included,
\* has the same value.
C3_AsStated ==
    \A l1, l2 \in Loads :
        (status[l1] = "done" /\ status[l2] = "done") =>
            \A n \in Names : SameValue(ns[l1][n], ns[l2][n])

\* C3 amended: in any two loads every name other than version that both
\* loads have defined has the same value; version is whatever
\* merlon.version() returned in the environment of the load, so it may differ
\* from load to load.
C3_StaticButVersion ==
    \A l1, l2 \in Loads :
        /\ \A n \in Names \ {"version"} :
              (Defined(l1, n) /\ Defined(l2, n)) => SameValue(ns[l1][n], ns[l2][n])
        /\ Defined(l1, "version") => ns[l1]["version"] \in merlon_version

C3_Witness ==
    \E l1, l2 \in Loads :
        /\ status[l1] = "done"
        /\ status[l2] = "done"
        /\ ~ SameValue(ns[l1]["version"], ns[l2]["version"])
        /\ SameValue(ns[l1]["autoclass_content"], ns[l2]["autoclass_content"])

(* ---- C4 --------------------------------------------------------------- *)

\* C4: after a completed load project, author, version and html_theme are
\* non-empty strings, extensions is a non-empty sequence of non-empty
\* strings, and templates_path, exclude_patterns and html_static_path hold
\* only non-empty strings.
C4_WellFormed ==
    \A l \in Loads : status[l] = "done" =>
        /\ \A n \in {"project", "author", "version", "html_theme"} : NonEmptyStr(ns[l][n])
        /\ NonEmptyStrs(ns[l]["extensions"])
        /\ Len(ns[l]["extensions"].val) > 0
        /\ \A n \in {"templates_path", "exclude_patterns", "html_static_path"} :
              NonEmptyStrs(ns[l][n])

C4_Witness ==
    \E l \in Loads :
        /\ status[l] = "done"
        /\ SameValue(ns[l]["author"], Str("Alex Bates"))
        /\ Len(ns[l]["extensions"].val) = 5
        /\ Len(ns[l]["exclude_patterns"].val) = 3

(* ---- C5 --------------------------------------------------------------- *)

\* the number of completed statements of load l that bound name n
TimesAssigned(ex, n) == Cardinality({ i \in 1..Len(ex) : ex[i].target = n })

\* C5: a load is one straight-line pass.  Every step either stops the load
\* or completes exactly the next statement; the statements complete in file
\* order (strictly increasing source lines); no name is ever assigned twice
\* and a completed load has assigned every name exactly once; and no step
\* changes the value of a name that is already defined.
C5_StraightLine ==
    [][ \A l \in Loads :
          /\ pc'[l] \in {pc[l], pc[l] + 1}
          /\ Len(executed'[l]) = pc'[l] - 1
          /\ \A i, j \in 1..Len(executed'[l]) :
                i < j => executed'[l][i].line < executed'[l][j].line
          /\ \A n \in Names : TimesAssigned(executed'[l], n) <= 1
          /\ status'[l] = "done" => \A n \in Names : TimesAssigned(executed'[l], n) = 1
          /\ \A n \in Names : Defined(l, n) => ns'[l][n] = ns[l][n]
      ]_vars

C5_Witness ==
    \E l \in Loads :
        /\ status[l] = "done"
        /\ Len(executed[l]) = Len(Program)
        /\ executed[l][1].line = 6
        /\ executed[l][Len(Program)].line = 73

(* ---- C6 --------------------------------------------------------------- *)

\* C6: a failed load leaves exactly the names of the statements before the
\* failing one defined.  If import merlon fails no name is defined; if
\* merlon.version() fails, the configuration names that are defined are
\* exactly project, copyright and author.  version is never defined unless
\* merlon was imported before.
C6_FailedPrefix ==
    \A l \in Loads :
        /\ status[l] = "error" => DefinedNames(l) = Prefix(pc[l] - 1)
        /\ FailedIn(l, "import") => DefinedNames(l) = {}
        /\ FailedIn(l, "call") =>
              DefinedNames(l) \cap ConfigNames = {"project", "copyright", "author"}
        /\ Defined(l, "version") => SameValue(ns[l]["merlon"], Module("merlon"))

C6_Witness ==
    \E l \in Loads :
        /\ FailedAt(l, 24)
        /\ Defined(l, "author")
        /\ ~ Defined(l, "version")
        /\ ~ Defined(l, "extensions")

(* ---- C7 --------------------------------------------------------------- *)

\* C7: after a completed load every extension-specific option that is set
\* has its extension listed in extensions: the copybutton options need
\* sphinx_copybutton, autosummary_generate needs sphinx.ext.autosummary and
\* autoclass_content needs sphinx.ext.autodoc.
C7_OptionsHaveExtension ==
    \A l \in Loads : status[l] = "done" =>
        /\ (Defined(l, "copybutton_prompt_text") \/ Defined(l, "copybutton_exclude"))
              => ExtensionListed(l, "sphinx_copybutton")
        /\ Defined(l, "autosummary_generate") => ExtensionListed(l, "sphinx.ext.autosummary")
        /\ Defined(l, "autoclass_content") => ExtensionListed(l, "sphinx.ext.autodoc")

C7_Witness ==
    \E l \in Loads :
        /\ status[l] = "done"
        /\ Defined(l, "copybutton_prompt_text")
        /\ Defined(l, "copybutton_exclude")
        /\ Defined(l, "autosummary_generate")
        /\ Defined(l, "autoclass_content")
        /\ ExtensionListed(l, "sphinx_copybutton")

====
